---- MODULE Spec2Model ----
(***************************************************************************)
(* A model of laumann/goutil's directorywatcher: a polling directory       *)
(* watcher that scans a directory on a ticker, diffs the scan against its  *)
(* snapshot (dw.files) and sends the Added/Changed/Deleted events to its   *)
(* observers.  The repository holds two variants of the watcher:           *)
(*   "scan2"  src/unnamed/part_001   (pluggable scanner: dw.scan)          *)
(*   "scan1"  src/goutil/env/env.go  (traversal inlined in scan1)          *)
(* Both are modelled; the variable `variant` says which one runs.          *)
(* The constructor New and env.Map (src/goutil/env/env.go) are modelled as *)
(* calls whose result is kept in `ret`.                                    *)
(*                                                                         *)
(* Time is abstracted: a ticker may fire whenever it is active.  Memory is *)
(* sequentially consistent: the unsynchronised accesses to dw.ticker are   *)
(* interleaved at the granularity of the source statements.                *)
(***************************************************************************)
EXTENDS Integers, Sequences, FiniteSets, TLC

\* ------------------------------------------------------------------ bounds
MaxTime == 2        \* modification times are 1..MaxTime
MaxStarts == 2      \* goroutines launched by Start (lifecycle specification)
MaxRuns == 1        \* goroutines launched by Start (scan-engine specification)
MaxObservers == 2   \* observers registered on the watcher (delivery specification)
MaxLifeObservers == 1  \* observers registered (lifecycle specification)
MaxValLen == 2      \* length of the value of an environment variable
MaxFaults == 1      \* entries whose stat/readdir fails at the same time

\* --------------------------------------------------------- the directory
\* The watched root and the entries that may exist under it.
Root == "r"
PB == "r/b"
PA == "r/b/a.t"
PC == "r/c.t"
Paths == {PB, PA, PC}
\* filepath.Glob and filepath.Walk both yield names in lexical order.
LexOrder == <<PB, PA, PC>>
Parent(p) == IF p = PA THEN PB ELSE Root
\* filepath.Base as a sequence of characters.
Base(p) == CASE p = PB -> <<"b">>
             [] p = PA -> <<"a", ".", "t">>
             [] p = PC -> <<"c", ".", "t">>
             [] OTHER -> <<"r">>
\* Entries that may be a directory (the others are always plain files).
DirPaths == {PB}

Patterns == { <<"*">>, <<"*", ".", "t">>, <<"[">> }

VARIABLES
  variant,   \* "scan1" | "scan2": which source variant runs
  fs,        \* the directory tree: present path -> [isDir, modTime, fault]
  dw,        \* the directoryWatcher struct
  gor,       \* the goroutines launched by Start, in launch order
  tickers,   \* the time.Tickers created so far: [active, c]
  crashed,   \* "no", or the panic that ended the process
  rcvd,      \* per observer channel: <<the last batch received>>, <<>> if none
  hist,      \* history of the last scan and of Start/Stop (for the claims)
  environ,   \* os.Environ(): the "NAME=VALUE" entries of the process
  ret        \* what the last call of New or env.Map returned

vars == <<variant, fs, dw, gor, tickers, crashed, rcvd, hist, environ, ret>>

\* ------------------------------------------------------- pure functions

\* filepath.Match for the pattern syntax used here: '*', '?', literals; a '['
\* that is never closed makes the pattern malformed (ErrBadPattern).
BadPattern(pat) == \E i \in 1..Len(pat) : pat[i] = "["

RECURSIVE GlobMatch(_, _)
GlobMatch(pat, name) ==
  IF pat = <<>> THEN name = <<>>
  ELSE IF Head(pat) = "*"
       THEN \E k \in 0..Len(name) : GlobMatch(Tail(pat), SubSeq(name, k + 1, Len(name)))
  ELSE IF name = <<>> THEN FALSE
  ELSE (Head(pat) = "?" \/ Head(pat) = Head(name)) /\ GlobMatch(Tail(pat), Tail(name))

\* matches(pattern, name): err == nil && matched
matches(pattern, name) == ~BadPattern(pattern) /\ GlobMatch(pattern, name)

\* os.FileInfo of a present entry.
Info(f, p) == [name |-> Base(p), isDir |-> f[p].isDir, modTime |-> f[p].modTime]
RootInfo == [name |-> Base(Root), isDir |-> TRUE, modTime |-> 1]
\* A (path, info) pair as sent by a scanner; info is <<>> for a nil FileInfo.
wrapFn(p, fi) == [path |-> p, info |-> fi]

\* The present children of directory d, in lexical order.
Children(f, d) == SelectSeq(LexOrder, LAMBDA q : q \in DOMAIN f /\ Parent(q) = d)

\* os.Stat / os.Lstat of a present entry fails when the entry is a faulty
\* file; reading a directory fails when the directory is faulty.
StatFails(f, p) == ~f[p].isDir /\ f[p].fault
ReadDirFails(f, p) == f[p].isDir /\ f[p].fault

\* filepath.Walk below the root.  returnsErr: whether the walk function
\* returns the error it is handed (recScanner does; scan1's closure returns
\* nil for a directory).  Result: the pairs handed to the walk function, and
\* whether the walk was aborted by a returned error.
RECURSIVE walk(_, _, _)
RECURSIVE walkNames(_, _, _)
walk(f, p, returnsErr) ==
  IF ~f[p].isDir THEN [out |-> <<wrapFn(p, <<Info(f, p)>>)>>, err |-> FALSE]
  ELSE IF ReadDirFails(f, p)
       THEN [out |-> <<wrapFn(p, <<Info(f, p)>>)>>, err |-> returnsErr]
  ELSE LET sub == walkNames(f, Children(f, p), returnsErr)
       IN  [out |-> <<wrapFn(p, <<Info(f, p)>>)>> \o sub.out, err |-> sub.err]

walkNames(f, names, returnsErr) ==
  IF names = <<>> THEN [out |-> <<>>, err |-> FALSE]
  ELSE LET q == Head(names) IN
       IF StatFails(f, q)
       THEN \* walkFn(filename, nil, err)
            IF returnsErr THEN [out |-> <<wrapFn(q, <<>>)>>, err |-> TRUE]
            ELSE LET rest == walkNames(f, Tail(names), returnsErr)
                 IN  [out |-> <<wrapFn(q, <<>>)>> \o rest.out, err |-> rest.err]
       ELSE LET r == walk(f, q, returnsErr) IN
            IF r.err THEN [out |-> r.out, err |-> TRUE]
            ELSE LET rest == walkNames(f, Tail(names), returnsErr)
                 IN  [out |-> r.out \o rest.out, err |-> rest.err]

\* recScanner: every pair filepath.Walk hands to the walk function, which
\* returns the error it was given.
recScanner(f) ==
  <<wrapFn(Root, <<RootInfo>>)>> \o walkNames(f, Children(f, Root), TRUE).out

\* globScanner: filepath.Glob(path/*), then os.Stat of each match; entries
\* whose Stat fails are skipped.
RECURSIVE statEach(_, _)
statEach(f, ps) ==
  IF ps = <<>> THEN <<>>
  ELSE IF StatFails(f, Head(ps)) THEN statEach(f, Tail(ps))
  ELSE <<wrapFn(Head(ps), <<Info(f, Head(ps))>>)>> \o statEach(f, Tail(ps))

globScanner(f) == statEach(f, Children(f, Root))

\* scan1's traversals: filepath.Walk with a closure that returns nil on
\* directories, or filepath.Glob(path/Pattern) and os.Stat.
walk1(f) ==
  <<wrapFn(Root, <<RootInfo>>)>> \o walkNames(f, Children(f, Root), FALSE).out
glob1(f, pattern) ==
  statEach(f, SelectSeq(Children(f, Root), LAMBDA q : matches(pattern, Base(q))))

\* An Event: its type, the path and the embedded os.FileInfo.
Event(type, path, info) == [Type |-> type, Path |-> path, info |-> info]

\* hasChange with the event types of its two returns exchanged.
hasChangeTypesSwapped(files, path, info) ==
  IF path \in DOMAIN files
  THEN [ev |-> Event("Added", path, info), yes |-> info.modTime > files[path].modTime]
  ELSE [ev |-> Event("Changed", path, info), yes |-> TRUE]

\* hasChange(path, info): the event, and whether it is one.
hasChange(files, path, info) ==
  IF path \in DOMAIN files
  THEN [ev |-> Event("Changed", path, info), yes |-> info.modTime > files[path].modTime]
  ELSE [ev |-> Event("Added", path, info), yes |-> TRUE]

\* The store dw.files[path] = info left out.
PutNothing(files, p, info) == files

\* dw.files[path] = info
Put(files, p, info) == [q \in DOMAIN files \cup {p} |-> IF q = p THEN info ELSE files[q]]

\* The first loop of scan1/scan2 over the pairs of a traversal.  checkMatch:
\* whether the loop filters on matches(Pattern, info.Name()) (the glob branch
\* of scan1 does not: filepath.Glob did).  A nil info panics at info.IsDir().
RECURSIVE scanLoop(_, _, _, _, _, _)
scanLoop(pairs, files, changed, touched, pattern, checkMatch) ==
  IF pairs = <<>>
  THEN [files |-> files, changed |-> changed, touched |-> touched, panic |-> FALSE]
  ELSE LET pr == Head(pairs) IN
       IF pr.info = <<>>
       THEN [files |-> files, changed |-> changed, touched |-> touched, panic |-> TRUE]
       ELSE LET info == pr.info[1] IN
            IF info.isDir \/ (checkMatch /\ ~matches(pattern, info.name))
            THEN scanLoop(Tail(pairs), files, changed, touched, pattern, checkMatch)
            ELSE LET hc == hasChange(files, pr.path, info) IN
                 scanLoop(Tail(pairs),
                          IF hc.yes THEN Put(files, pr.path, info) ELSE files,
                          IF hc.yes THEN Append(changed, hc.ev) ELSE changed,
                          touched \cup {pr.path}, pattern, checkMatch)

\* The pairs the scan of watcher d traverses over directory f.
Traversal(v, d, f) ==
  IF v = "scan2"
  THEN (IF d.scan = "recScanner" THEN recScanner(f) ELSE globScanner(f))
  ELSE (IF d.Recursive THEN walk1(f) ELSE glob1(f, d.Pattern))

\* scan1 / scan2 with the deletion loop left out: untouched paths are kept.
scanCoreKeepUntouched(v, d, f) ==
  LET r == scanLoop(Traversal(v, d, f), d.files, <<>>, {}, d.Pattern,
                    v = "scan2" \/ d.Recursive)
  IN  [files |-> r.files, changed |-> r.changed, gone |-> {}, panic |-> r.panic]
\* scan1 / scan2 up to the deletion loop: the snapshot and events after the
\* traversal loop, and the set of paths the deletion loop will delete.
scanCore(v, d, f) ==
  LET r == scanLoop(Traversal(v, d, f), d.files, <<>>, {}, d.Pattern,
                    v = "scan2" \/ d.Recursive)
  IN  [files |-> r.files, changed |-> r.changed,
       gone |-> DOMAIN r.files \ r.touched, panic |-> r.panic]

\* All orders in which a Go map range may visit the paths of S.
RECURSIVE Orders(_)
Orders(S) ==
  IF S = {} THEN {<<>>}
  ELSE UNION {{<<p>> \o o : o \in Orders(S \ {p})} : p \in S}

Restrict(files, S) == [q \in S |-> files[q]]

\* The second loop: one Deleted event per untouched path, in map order o.
DeletedEvents(files, o) == [i \in 1..Len(o) |-> Event("Deleted", o[i], files[o[i]])]


\* --------------------------------------------------- history of the scans
\* What a scan of the directory should see: the plain files that can be
\* stat'ed, lie where the traversal in effect looks (the root's children, or
\* the whole readable subtree), and whose base name matches the pattern.
Recursing(v, d) == IF v = "scan2" THEN d.scan = "recScanner" ELSE d.Recursive

Visible(f, p, recursive) ==
  /\ p \in DOMAIN f
  /\ ~f[p].isDir
  /\ ~f[p].fault
  /\ \/ Parent(p) = Root
     \/ recursive /\ ~f[Parent(p)].fault

View(f, recursive, pattern) ==
  [p \in {q \in Paths : Visible(f, q, recursive) /\ matches(pattern, Base(q))}
     |-> f[p].modTime]

\* hist: whether a scan has completed (n), the kind of the last one, what it
\* should have seen (view), the events it returned, whether the directory was
\* changed since (dirty); whether Start has been called with no Stop since
\* (started); how many observers were registered before the first Start
\* (early); and, per observer channel, the set of paths obtained by replaying
\* the batches it has received (replay).
NoHist ==
  [n |-> 0, kind |-> "none", view |-> <<>>, events |-> <<>>, dirty |-> FALSE,
   started |-> FALSE, early |-> 0, replay |-> <<>>]

\* The history after a scan of kind k ("init" | "tick") that returned `events`.
Scanned(k, events) ==
  [hist EXCEPT !.n = 1,
               !.kind = k,
               !.view = View(fs, Recursing(variant, dw), dw.Pattern),
               !.events = events,
               !.dirty = FALSE]

\* ------------------------------------------------------------------ state
Nil == 0    \* a nil *time.Ticker

\* New(path): the watcher New returns for a directory.
New ==
  [Interval |-> 2000, Recursive |-> FALSE, Pattern |-> <<"*">>, Preload |-> FALSE,
   scan |-> "globScanner", files |-> <<>>, ticker |-> Nil, observers |-> <<>>]

\* No call of New or env.Map has returned yet.
NoRet == [fn |-> "none"]

\* New(path) without the test that the path is a directory.
NewOnAnyEntry(f, path) ==
  IF path # Root /\ (path \notin DOMAIN f \/ (~f[path].isDir /\ f[path].fault))
  THEN [dw |-> <<>>, err |-> "stat"]
  ELSE [dw |-> <<New>>, err |-> "nil"]

\* New(path) over directory tree f: os.Stat fails, or the path is not a
\* directory, and no watcher is returned (dw is <<>> for nil); otherwise the
\* watcher with the defaults.
NewOn(f, path) ==
  IF path # Root /\ (path \notin DOMAIN f \/ (~f[path].isDir /\ f[path].fault))
  THEN [dw |-> <<>>, err |-> "stat"]
  ELSE IF path # Root /\ ~f[path].isDir
  THEN [dw |-> <<>>, err |-> "not a directory"]
  ELSE [dw |-> <<New>>, err |-> "nil"]

Init ==
  /\ variant \in {"scan1", "scan2"}
  /\ fs = <<>>
  /\ dw = New
  /\ gor = <<>>
  /\ tickers = <<>>
  /\ crashed = "no"
  /\ rcvd = <<>>
  /\ hist = NoHist
  /\ environ = <<>>
  /\ ret = NoRet

\* ------------------------------------------------------- the environment
Faulty(f) == {p \in DOMAIN f : f[p].fault}
WithEntry(f, p, e) == [q \in DOMAIN f \cup {p} |-> IF q = p THEN e ELSE f[q]]
\* p and everything below it.
Subtree(p) == {q \in Paths : q = p \/ Parent(q) = p}

\* A file or directory is created under the root.
FsCreate(p, isDir, t) ==
  /\ crashed = "no"
  /\ p \notin DOMAIN fs
  /\ Parent(p) = Root \/ (Parent(p) \in DOMAIN fs /\ fs[Parent(p)].isDir)
  /\ isDir => (p \in DirPaths /\ t = 1)
  /\ fs' = WithEntry(fs, p, [isDir |-> isDir, modTime |-> t, fault |-> FALSE])
  /\ hist' = [hist EXCEPT !.dirty = TRUE]
  /\ UNCHANGED <<environ, ret, variant, dw, gor, tickers, crashed, rcvd>>

\* A file's modification time is set (forwards or backwards).
FsTouch(p, t) ==
  /\ crashed = "no"
  /\ p \in DOMAIN fs /\ ~fs[p].isDir /\ fs[p].modTime # t
  /\ fs' = [fs EXCEPT ![p].modTime = t]
  /\ hist' = [hist EXCEPT !.dirty = TRUE]
  /\ UNCHANGED <<environ, ret, variant, dw, gor, tickers, crashed, rcvd>>

\* An entry is removed, with everything below it.
FsRemove(p) ==
  /\ crashed = "no"
  /\ p \in DOMAIN fs
  /\ fs' = [q \in DOMAIN fs \ Subtree(p) |-> fs[q]]
  /\ hist' = [hist EXCEPT !.dirty = TRUE]
  /\ UNCHANGED <<environ, ret, variant, dw, gor, tickers, crashed, rcvd>>

\* An entry becomes unreadable (stat of a file, or reading a directory,
\* fails), or readable again.
FsFault(p) ==
  /\ crashed = "no"
  /\ p \in DOMAIN fs
  /\ fs[p].fault \/ Cardinality(Faulty(fs)) < MaxFaults
  /\ fs' = [fs EXCEPT ![p].fault = ~fs[p].fault]
  /\ hist' = [hist EXCEPT !.dirty = TRUE]
  /\ UNCHANGED <<environ, ret, variant, dw, gor, tickers, crashed, rcvd>>

\* A caller constructs a watcher for path.
CallNew(path) ==
  /\ crashed = "no"
  /\ LET r == NewOn(fs, path) IN
       ret' = [fn |-> "New", path |-> path, dw |-> r.dw, err |-> r.err]
  /\ UNCHANGED <<environ, variant, fs, dw, gor, tickers, crashed, rcvd, hist>>

\* -------------------------------------------------------- configuration
\* The exported fields, set by the caller after New.  Pattern and Preload
\* are set before the first Start; Recursive may be flipped at any time.
SetRecursive(b) ==
  /\ crashed = "no"
  /\ dw.Recursive # b
  /\ dw' = [dw EXCEPT !.Recursive = b]
  /\ UNCHANGED <<environ, ret, variant, fs, gor, tickers, crashed, rcvd, hist>>

SetPattern(pat) ==
  /\ crashed = "no"
  /\ gor = <<>> /\ dw.Pattern # pat
  /\ dw' = [dw EXCEPT !.Pattern = pat]
  /\ UNCHANGED <<environ, ret, variant, fs, gor, tickers, crashed, rcvd, hist>>

SetPreload(b) ==
  /\ crashed = "no"
  /\ gor = <<>> /\ dw.Preload # b
  /\ dw' = [dw EXCEPT !.Preload = b]
  /\ UNCHANGED <<environ, ret, variant, fs, gor, tickers, crashed, rcvd, hist>>

\* AddNewObserver: a fresh channel, appended to dw.observers.
AddNewObserver ==
  /\ crashed = "no"
  /\ Len(dw.observers) < MaxObservers
  /\ dw' = [dw EXCEPT !.observers = Append(@, Len(rcvd) + 1)]
  /\ rcvd' = Append(rcvd, <<>>)
  /\ hist' = [hist EXCEPT !.replay = Append(@, {})]
  /\ UNCHANGED <<environ, ret, variant, fs, gor, tickers, crashed>>

\* -------------------------------------------------------------- lifecycle
\* A panic ends the process: its memory (watcher, goroutines, tickers,
\* channels) is gone; the directory stays.
Panic(cause) ==
  /\ crashed' = cause
  /\ dw' = New
  /\ gor' = <<>>
  /\ tickers' = <<>>
  /\ rcvd' = <<>>
  /\ hist' = NoHist
  /\ UNCHANGED <<environ, ret, variant, fs>>

\* A goroutine: where it is (pc), the batch and observers of the notify it is
\* in and the index of the next send, the ticker whose channel it ranges
\* over; rec records the Recursive flag at the Start that launched it.
NewGoroutine ==
  [pc |-> "scan0", batch |-> <<>>, obs |-> <<>>, i |-> 0, tk |-> Nil, rec |-> FALSE]

\* Start: returns at once when dw.ticker is set; otherwise installs the
\* recursive scanner if asked to (scan2 variant) and launches the goroutine.
Start ==
  /\ crashed = "no"
  /\ IF dw.ticker # Nil
     THEN UNCHANGED <<dw, gor>>
     ELSE /\ Len(gor) < MaxStarts
          /\ dw' = IF variant = "scan2" /\ dw.Recursive
                   THEN [dw EXCEPT !.scan = "recScanner"] ELSE dw
          /\ gor' = Append(gor, [NewGoroutine EXCEPT !.rec = dw.Recursive])
  /\ hist' = [hist EXCEPT !.started = TRUE,
                           !.early = IF gor = <<>> /\ dw.ticker = Nil
                                     THEN Len(dw.observers) ELSE @]
  /\ UNCHANGED <<environ, ret, variant, fs, tickers, crashed, rcvd>>

\* Stop: dw.ticker.Stop() dereferences a nil ticker when none is set.
Stop ==
  /\ crashed = "no"
  /\ IF dw.ticker = Nil
     THEN Panic("Stop: nil ticker")
     ELSE /\ tickers' = [tickers EXCEPT ![dw.ticker].active = FALSE]
          /\ dw' = [dw EXCEPT !.ticker = Nil]
          /\ hist' = [hist EXCEPT !.started = FALSE]
          /\ UNCHANGED <<environ, ret, variant, fs, gor, crashed, rcvd>>

\* Running: whether dw.ticker is set.
Running == dw.ticker # Nil

\* ------------------------------------------------------------ goroutine
\* notify with the early return on an empty batch left out.
notifyAlways(g, events, sendPc, after) ==
  IF dw.observers = <<>>
  THEN [gor[g] EXCEPT !.pc = after, !.batch = <<>>, !.obs = <<>>, !.i = 0]
  ELSE [gor[g] EXCEPT !.pc = sendPc, !.batch = events, !.obs = dw.observers, !.i = 1]
\* notify(evAt) called by goroutine g, which continues at pc `after` when
\* notify returns: nothing is sent for an empty batch (or to no observers).
notify(g, events, sendPc, after) ==
  IF events = <<>> \/ dw.observers = <<>>
  THEN [gor[g] EXCEPT !.pc = after, !.batch = <<>>, !.obs = <<>>, !.i = 0]
  ELSE [gor[g] EXCEPT !.pc = sendPc, !.batch = events, !.obs = dw.observers, !.i = 1]

\* A scan that returns the Deleted events ahead of the others.
ScanDeletedFirst(g, k, deliver, sendPc, after, tks) ==
  LET r == scanCore(variant, dw, fs) IN
  IF r.panic
  THEN Panic("scan: nil FileInfo")
  ELSE \E o \in Orders(r.gone) :
         LET events == DeletedEvents(r.files, o) \o r.changed IN
         /\ dw' = [dw EXCEPT !.files = Restrict(r.files, DOMAIN r.files \ r.gone)]
         /\ gor' = [gor EXCEPT ![g] =
                      IF deliver THEN notify(g, events, sendPc, after)
                      ELSE [gor[g] EXCEPT !.pc = after]]
         /\ hist' = Scanned(k, events)
         /\ tickers' = tks
         /\ UNCHANGED <<environ, ret, variant, fs, crashed, rcvd>>

\* One scan by goroutine g of kind k; deliver: whether its batch is handed
\* to notify; tks: the tickers once the scan has begun.  The scan panics on a
\* nil FileInfo.
Scan(g, k, deliver, sendPc, after, tks) ==
  LET r == scanCore(variant, dw, fs) IN
  IF r.panic
  THEN Panic("scan: nil FileInfo")
  ELSE \E o \in Orders(r.gone) :
         LET events == r.changed \o DeletedEvents(r.files, o) IN
         /\ dw' = [dw EXCEPT !.files = Restrict(r.files, DOMAIN r.files \ r.gone)]
         /\ gor' = [gor EXCEPT ![g] =
                      IF deliver THEN notify(g, events, sendPc, after)
                      ELSE [gor[g] EXCEPT !.pc = after]]
         /\ hist' = Scanned(k, events)
         /\ tickers' = tks
         /\ UNCHANGED <<environ, ret, variant, fs, crashed, rcvd>>

\* The immediate scan with the test of Preload left out.
InitialScanIgnoringPreload(g) ==
  /\ crashed = "no"
  /\ gor[g].pc = "scan0"
  /\ Scan(g, "init", TRUE, "notify0", "newTicker", tickers)
\* The goroutine's first statement: the immediate scan, notified unless
\* Preload is set.
InitialScan(g) ==
  /\ crashed = "no"
  /\ gor[g].pc = "scan0"
  /\ Scan(g, "init", ~dw.Preload, "notify0", "newTicker", tickers)

\* What an observer holds after applying a batch to the set S of paths it
\* knows: Added inserts the path, Deleted removes it, Changed keeps it.
RECURSIVE Replay(_, _)
Replay(S, batch) ==
  IF batch = <<>> THEN S
  ELSE LET e == Head(batch) IN
       Replay(IF e.Type = "Added" THEN S \cup {e.Path}
              ELSE IF e.Type = "Deleted" THEN S \ {e.Path} ELSE S,
              Tail(batch))

\* ch <- evAt: the observer of the next channel receives the batch.
Send(g) ==
  /\ crashed = "no"
  /\ gor[g].pc \in {"notify0", "notify"}
  /\ LET ch == gor[g].obs[gor[g].i] IN
       /\ rcvd' = [rcvd EXCEPT ![ch] = <<gor[g].batch>>]
       /\ hist' = [hist EXCEPT !.replay[ch] = Replay(@, gor[g].batch)]
  /\ gor' = [gor EXCEPT ![g] =
       IF gor[g].i < Len(gor[g].obs)
       THEN [gor[g] EXCEPT !.i = @ + 1]
       ELSE [gor[g] EXCEPT !.pc = IF gor[g].pc = "notify0" THEN "newTicker" ELSE "recv",
                           !.batch = <<>>, !.obs = <<>>, !.i = 0]]
  /\ UNCHANGED <<environ, ret, variant, fs, dw, tickers, crashed>>

\* dw.ticker = time.NewTicker(...)
NewTicker(g) ==
  /\ crashed = "no"
  /\ gor[g].pc = "newTicker"
  /\ tickers' = Append(tickers, [active |-> TRUE, c |-> FALSE])
  /\ dw' = [dw EXCEPT !.ticker = Len(tickers) + 1]
  /\ gor' = [gor EXCEPT ![g].pc = "range"]
  /\ UNCHANGED <<environ, ret, variant, fs, crashed, rcvd, hist>>

\* for now = range dw.ticker.C: the channel expression is evaluated once.
Range(g) ==
  /\ crashed = "no"
  /\ gor[g].pc = "range"
  /\ IF dw.ticker = Nil
     THEN Panic("range: nil ticker")
     ELSE /\ gor' = [gor EXCEPT ![g].pc = "recv", ![g].tk = dw.ticker]
          /\ UNCHANGED <<environ, ret, variant, fs, dw, tickers, crashed, rcvd, hist>>

\* The runtime sends a tick on an active ticker's channel (buffer of one;
\* a tick that finds the buffer full is dropped).
Tick(t) ==
  /\ crashed = "no"
  /\ tickers[t].active /\ ~tickers[t].c
  /\ tickers' = [tickers EXCEPT ![t].c = TRUE]
  /\ UNCHANGED <<environ, ret, variant, fs, dw, gor, crashed, rcvd, hist>>

\* The loop body: receive a tick, scan, notify.
TickScan(g) ==
  /\ crashed = "no"
  /\ gor[g].pc = "recv"
  /\ tickers[gor[g].tk].c
  /\ Scan(g, "tick", TRUE, "notify", "recv", [tickers EXCEPT ![gor[g].tk].c = FALSE])

\* ------------------------------------------------------------ package env
\* Strings are sequences of characters.  The names and values a variable of
\* the environment may have; a value may hold '='.
Names == {<<"A">>, <<"B">>}
Values == UNION {[1..n -> {"x", "="}] : n \in 0..MaxValLen}

\* The index of the first c in s, 0 if there is none.
IndexOf(s, c) ==
  IF \E i \in 1..Len(s) : s[i] = c
  THEN CHOOSE i \in 1..Len(s) : s[i] = c /\ \A j \in 1..(i - 1) : s[j] # c
  ELSE 0

\* strings.Split(s, c) for a separator of one character.
RECURSIVE Split(_, _)
Split(s, c) ==
  LET i == IndexOf(s, c) IN
  IF i = 0 THEN <<s>>
  ELSE <<SubSeq(s, 1, i - 1)>> \o Split(SubSeq(s, i + 1, Len(s)), c)

\* The loop of Map over os.Environ(): env[kv[0]] = kv[1]; kv[1] of an entry
\* without '=' is out of range.
RECURSIVE MapLoop(_, _)
MapLoop(entries, env) ==
  IF entries = <<>> THEN [env |-> env, panic |-> FALSE]
  ELSE LET kv == Split(Head(entries), "=") IN
       IF Len(kv) < 2 THEN [env |-> env, panic |-> TRUE]
       ELSE MapLoop(Tail(entries),
                    [k \in DOMAIN env \cup {kv[1]} |-> IF k = kv[1] THEN kv[2] ELSE env[k]])

\* env.Map(): the map made (never nil) and filled by the loop.
Map(entries) == MapLoop(entries, <<>>)

\* os.Setenv(k, v): the entry "k=v" replaces the entry of k or is appended.
Entry(k, v) == k \o <<"=">> \o v
EntryName(e) == SubSeq(e, 1, IndexOf(e, "=") - 1)
Setenv(k, v) ==
  /\ crashed = "no"
  /\ environ' =
       IF \E i \in 1..Len(environ) : EntryName(environ[i]) = k
       THEN [i \in 1..Len(environ) |->
               IF EntryName(environ[i]) = k THEN Entry(k, v) ELSE environ[i]]
       ELSE Append(environ, Entry(k, v))
  /\ environ' # environ
  /\ UNCHANGED <<ret, variant, fs, dw, gor, tickers, crashed, rcvd, hist>>

\* os.Clearenv()
Clearenv ==
  /\ crashed = "no"
  /\ environ # <<>>
  /\ environ' = <<>>
  /\ UNCHANGED <<ret, variant, fs, dw, gor, tickers, crashed, rcvd, hist>>

\* A caller calls env.Map().
CallMap ==
  /\ crashed = "no"
  /\ LET r == Map(environ) IN
       IF r.panic
       THEN Panic("Map: index out of range")
       ELSE /\ ret' = [fn |-> "Map", nil |-> FALSE, env |-> r.env]
            /\ UNCHANGED <<environ, variant, fs, dw, gor, tickers, crashed, rcvd, hist>>

\* ---------------------------------------------------------- specification
Times == 1..MaxTime

\* The directory changes in any way: files and a subdirectory come and go,
\* modification times move, entries become unreadable.
FsStep ==
  \/ \E p \in Paths, t \in Times : FsCreate(p, FALSE, t)
  \/ \E p \in DirPaths : FsCreate(p, TRUE, 1)
  \/ \E p \in Paths, t \in Times : FsTouch(p, t)
  \/ \E p \in Paths : FsRemove(p)
  \/ \E p \in Paths : FsFault(p)

Config ==
  \/ \E b \in BOOLEAN : gor = <<>> /\ SetRecursive(b)
  \/ \E pat \in Patterns : SetPattern(pat)
  \/ \E b \in BOOLEAN : SetPreload(b)

\* The scan engine: one run of the watcher without observers over a
\* directory that changes freely.
NextScan ==
  \/ FsStep
  \/ Config
  \/ Len(gor) < MaxRuns /\ Start
  \/ Stop
  \/ \E g \in 1..Len(gor) : InitialScan(g)
  \/ \E g \in 1..Len(gor) : NewTicker(g)
  \/ \E g \in 1..Len(gor) : Range(g)
  \/ \E t \in 1..Len(tickers) : Tick(t)
  \/ \E g \in 1..Len(gor) : TickScan(g)

SpecScan == Init /\ [][NextScan]_vars

\* The lifecycle: Start, Stop, the goroutines and the observers, over a
\* directory in which one file and one subdirectory come and go.
LifeFsStep ==
  \/ FsCreate(PC, FALSE, 1)
  \/ FsRemove(PC)
  \/ FsCreate(PB, TRUE, 1)
  \/ FsRemove(PB)
  \/ FsFault(PB)

LifeConfig ==
  \/ \E b \in BOOLEAN : gor = <<>> /\ SetRecursive(b)
  \/ \E b \in BOOLEAN : SetPreload(b)

Next ==
  \/ LifeFsStep
  \/ LifeConfig
  \/ Len(dw.observers) < MaxLifeObservers /\ AddNewObserver
  \/ Start
  \/ Stop
  \/ \E g \in 1..Len(gor) : InitialScan(g)
  \/ \E g \in 1..Len(gor) : Send(g)
  \/ \E g \in 1..Len(gor) : NewTicker(g)
  \/ \E g \in 1..Len(gor) : Range(g)
  \/ \E t \in 1..Len(tickers) : Tick(t)
  \/ \E g \in 1..Len(gor) : TickScan(g)

Spec == Init /\ [][Next]_vars

\* Delivery: several observers, Start and Stop, over a directory in which one
\* file comes and goes.
NotifyFsStep ==
  \/ FsCreate(PC, FALSE, 1)
  \/ FsRemove(PC)

NextNotify ==
  \/ NotifyFsStep
  \/ \E b \in BOOLEAN : SetPreload(b)
  \/ AddNewObserver
  \/ Start
  \/ Stop
  \/ \E g \in 1..Len(gor) : InitialScan(g)
  \/ \E g \in 1..Len(gor) : Send(g)
  \/ \E g \in 1..Len(gor) : NewTicker(g)
  \/ \E g \in 1..Len(gor) : Range(g)
  \/ \E t \in 1..Len(tickers) : Tick(t)
  \/ \E g \in 1..Len(gor) : TickScan(g)

SpecNotify == Init /\ [][NextNotify]_vars

\* The traversal strategy: the Recursive flag is set at any time, the
\* watcher is started, stopped and restarted, over a directory with a
\* subdirectory r/b that holds r/b/a.t.
StrategyFsStep ==
  \/ FsCreate(PB, TRUE, 1)
  \/ FsCreate(PA, FALSE, 1)
  \/ FsRemove(PA)

NextStrategy ==
  \/ StrategyFsStep
  \/ \E b \in BOOLEAN : SetRecursive(b)
  \/ Start
  \/ Stop
  \/ \E g \in 1..Len(gor) : InitialScan(g)
  \/ \E g \in 1..Len(gor) : NewTicker(g)
  \/ \E g \in 1..Len(gor) : Range(g)
  \/ \E t \in 1..Len(tickers) : Tick(t)
  \/ \E g \in 1..Len(gor) : TickScan(g)

SpecStrategy == Init /\ [][NextStrategy]_vars

\* Construction: New is called on any path while the directory changes.
NextNew ==
  \/ FsStep
  \/ \E p \in Paths \cup {Root} : CallNew(p)

SpecNew == Init /\ [][NextNew]_vars

\* The environment is set and cleared, and env.Map() is called.
NextEnv ==
  \/ \E k \in Names, v \in Values : Setenv(k, v)
  \/ Clearenv
  \/ CallMap

SpecEnv == Init /\ [][NextEnv]_vars


\* ------------------------------------------------------ steps of a scan
\* A step in which goroutine g completed its initial scan / a periodic scan.
InitScanStep(g) ==
  /\ crashed' = "no"
  /\ g \in 1..Len(gor) /\ gor[g].pc = "scan0"
  /\ gor'[g].pc # "scan0"
TickScanStep(g) ==
  /\ crashed' = "no"
  /\ g \in 1..Len(gor) /\ gor[g].pc = "recv"
  /\ tickers[gor[g].tk].c /\ ~tickers'[gor[g].tk].c
ScanStep == \E g \in 1..Len(gor) : InitScanStep(g) \/ TickScanStep(g)

\* What the scan of the current step should see.
ViewNow == View(fs, Recursing(variant, dw), dw.Pattern)

\* The number of events of a type for a path in a batch.
Count(events, type, p) ==
  Cardinality({i \in 1..Len(events) : events[i].Type = type /\ events[i].Path = p})

\* ------------------------------------------------------------------ claims

\* C1: immediately after each scan the key set of the Snapshot (dw.files) is
\* exactly the set of plain files that match the pattern at that scan.
C1_SnapshotIsMatchingSet ==
  hist.n = 1 => DOMAIN dw.files = DOMAIN hist.view

\* C2: if the set of matching files and their modification times is the same
\* at two consecutive scans, the second scan returns no events and leaves the
\* Snapshot unchanged.
C2_UnchangedDirectoryNoEvents ==
  [][(ScanStep /\ hist.n = 1 /\ ViewNow = hist.view)
       => (hist'.events = <<>> /\ dw'.files = dw.files)]_vars

\* C3: a matching file absent at scan N and present at scan N+1 yields exactly
\* one Added event in the batch of scan N+1, and no Added event while it stays
\* present; a Changed event is emitted only if the modification time the scan
\* sees is strictly later than the one seen before.
C3_AddedOnceChangedOnlyLater ==
  [][(ScanStep /\ hist.n = 1) =>
       \A p \in Paths :
         /\ (p \notin DOMAIN hist.view /\ p \in DOMAIN ViewNow)
              => Count(hist'.events, "Added", p) = 1
         /\ (p \in DOMAIN hist.view /\ p \in DOMAIN ViewNow)
              => Count(hist'.events, "Added", p) = 0
         /\ Count(hist'.events, "Changed", p) > 0
              => (p \in DOMAIN hist.view /\ p \in DOMAIN ViewNow
                  /\ ViewNow[p] > hist.view[p])]_vars

\* C4: a tracked file that is removed, or stops matching, between two scans
\* yields exactly one Deleted event in the batch of the first scan that does
\* not see it, and that scan removes it from the Snapshot; a Deleted event is
\* only ever emitted for a path the Snapshot held, so it is not repeated
\* unless the path was added to the Snapshot again.
C4_DeletedOnce ==
  [][ScanStep =>
       \A p \in Paths :
         /\ (p \in DOMAIN dw.files /\ p \notin DOMAIN ViewNow)
              => (Count(hist'.events, "Deleted", p) = 1 /\ p \notin DOMAIN dw'.files)
         /\ Count(hist'.events, "Deleted", p) > 0
              => (Count(hist'.events, "Deleted", p) = 1
                  /\ p \in DOMAIN dw.files /\ p \notin DOMAIN dw'.files)]_vars

\* A periodic scan has just reported the removal of r/c.t, which is gone.
C4_Witness ==
  /\ hist.kind = "tick"
  /\ PC \notin DOMAIN fs /\ ~hist.dirty
  /\ Count(hist.events, "Deleted", PC) = 1
  /\ PC \notin DOMAIN dw.files


Sending(g) == gor[g].pc \in {"notify0", "notify"}

\* C5: no observer ever receives a batch without events; notify of an empty
\* batch sends on no channel and changes nothing, for the initial scan and
\* for every tick.
C5_NoEmptyBatchDelivered ==
  /\ [](/\ \A g \in 1..Len(gor) : Sending(g) => gor[g].batch # <<>>
        /\ \A ch \in 1..Len(rcvd) : rcvd[ch] # <<>> => rcvd[ch][1] # <<>>)
  /\ [][\A g \in 1..Len(gor) :
          ((InitScanStep(g) \/ TickScanStep(g)) /\ hist'.events = <<>>)
            => (~Sending(g)' /\ rcvd' = rcvd /\ dw'.observers = dw.observers)]_vars

\* An observer that has received a batch is registered, and the last
\* periodic scan found nothing to report.
C5_Witness ==
  /\ dw.observers # <<>>
  /\ rcvd[1] # <<>>
  /\ hist.kind = "tick" /\ hist.events = <<>>
  /\ \A g \in 1..Len(gor) : ~Sending(g)

\* The events of a batch are one Added event for each path of S.
AllAdded(events, S) ==
  /\ Len(events) = Cardinality(S)
  /\ \A p \in S : Count(events, "Added", p) = 1

\* C6: Start performs one immediate scan before any tick.  With Preload its
\* batch is never handed to an observer although the Snapshot holds the files
\* it found, so the first tick over an unchanged directory delivers nothing;
\* without Preload and with an empty Snapshot the batch of the immediate scan
\* is one Added event for each file it found, and it is what is sent.
C6_PreloadSuppressesFirstBatch ==
  /\ [](tickers # <<>> => hist.n = 1)
  /\ [](dw.Preload => \A g \in 1..Len(gor) : gor[g].pc # "notify0")
  /\ [][\A g \in 1..Len(gor) :
          /\ (crashed' = "no" /\ gor[g].pc # "scan0") => gor'[g].pc # "scan0"
          /\ (InitScanStep(g) /\ dw.Preload)
               => /\ gor'[g].pc = "newTicker" /\ rcvd' = rcvd
                  /\ \A p \in Paths : Count(hist'.events, "Added", p) > 0
                                        => p \in DOMAIN dw'.files
          /\ (TickScanStep(g) /\ dw.Preload /\ hist.kind = "init" /\ ~hist.dirty)
               => (hist'.events = <<>> /\ gor'[g].pc = "recv" /\ rcvd' = rcvd)
          /\ (InitScanStep(g) /\ ~dw.Preload /\ DOMAIN dw.files = {})
               => /\ AllAdded(hist'.events, DOMAIN dw'.files)
                  /\ (hist'.events # <<>> /\ dw.observers # <<>>)
                       => (gor'[g].pc = "notify0" /\ gor'[g].batch = hist'.events)]_vars

\* Preload: the immediate scan found r/c.t, the first tick found the
\* directory unchanged, and the registered observer has received nothing.
C6_Witness ==
  /\ dw.Preload
  /\ dw.observers # <<>> /\ rcvd[1] = <<>>
  /\ PC \in DOMAIN dw.files
  /\ hist.kind = "tick" /\ hist.events = <<>> /\ ~hist.dirty

\* C7: a Start call after an earlier Start, with no Stop in between, is a
\* no-op whenever it is made: it launches no second scan loop.
C7_StartIsIdempotent ==
  [][hist.started => Len(gor') <= Len(gor)]_vars

\* C8: Stop on a watcher whose ticker is not set (never started, stopped, or
\* started with the ticker not yet created) is a no-op and does not crash.
C8_StopWhileIdleIsNoOp ==
  crashed # "Stop: nil ticker"

\* C9: Running() is false after construction, becomes true only after a Start
\* that no Stop has followed, is false after Stop, and while it is false no
\* periodic scan of the watcher takes place.
C9_RunningTracksLifecycle ==
  /\ ~Running
  /\ [][/\ (~Running /\ Running') => hist.started
        /\ (hist.started /\ ~hist'.started /\ crashed' = "no") => ~Running'
        /\ (\E g \in 1..Len(gor) : TickScanStep(g)) => Running]_vars

\* C10: after Stop no tick triggers a scan on the stopped loop: a periodic
\* scan is only ever started by a tick of a ticker that has not been stopped.
C10_NoScanAfterStop ==
  [][\A g \in 1..Len(gor) : TickScanStep(g) => tickers[gor[g].tk].active]_vars

\* A step in which goroutine g completed one send of the notify it is in.
SendStep(g) ==
  /\ crashed' = "no"
  /\ g \in 1..Len(gor) /\ gor[g].pc \in {"notify0", "notify"}
  /\ gor'[g].i # gor[g].i

Senders == {g \in 1..Len(gor) : gor[g].pc \in {"notify0", "notify"}}

\* C11: a non-empty batch goes to every registered observer in registration
\* order by a blocking send: observer k receives it only after observers
\* 1..k-1 have, notify returns only after the last observer has received it,
\* and while a batch is being delivered no other batch is delivered to anyone.
C11_RegistrationOrderDelivery ==
  /\ [](Cardinality(Senders) <= 1)
  /\ [][\A g \in 1..Len(gor) :
          /\ ((InitScanStep(g) \/ TickScanStep(g)) /\ gor'[g].pc \in {"notify0", "notify"})
               => (gor'[g].obs = dw.observers /\ gor'[g].i = 1
                   /\ gor'[g].batch = hist'.events)
          /\ SendStep(g) =>
               /\ \A j \in 1..(gor[g].i - 1) : rcvd[gor[g].obs[j]] = <<gor[g].batch>>
               /\ rcvd'[gor[g].obs[gor[g].i]] = <<gor[g].batch>>
               /\ \A ch \in 1..Len(rcvd) : ch # gor[g].obs[gor[g].i] => rcvd'[ch] = rcvd[ch]
               /\ gor'[g].pc \notin {"notify0", "notify"} => gor[g].i = Len(gor[g].obs)]_vars

\* A goroutine whose loop can still scan: it has not reached its receive, or
\* its ticker is active, or a tick is left in the ticker's channel.
Live(g) ==
  \/ gor[g].pc # "recv"
  \/ tickers[gor[g].tk].active
  \/ tickers[gor[g].tk].c

\* C12: a watcher has at most one background loop that can still scan, and a
\* scan never begins while a notify of another tick is still in progress, for
\* every interleaving of Start, Stop, receives and ticks.
C12_OneLoopOneTick ==
  /\ [](Cardinality({g \in 1..Len(gor) : Live(g)}) <= 1)
  /\ [][\A g \in 1..Len(gor) :
          (InitScanStep(g) \/ TickScanStep(g))
            => \A g2 \in 1..Len(gor) : g2 # g => gor[g2].pc \notin {"notify0", "notify"}]_vars

\* C13: a traversal error on one entry never aborts the scan, in shallow and
\* in recursive mode: the scan does not crash, and after it every plain
\* matching file that can be read is in the Snapshot, whatever other entry
\* could not be stat'ed or read.
C13_TraversalErrorNeverAborts ==
  /\ crashed # "scan: nil FileInfo"
  /\ (hist.n = 1 /\ crashed = "no") => DOMAIN hist.view \subseteq DOMAIN dw.files

\* C14: the traversal strategy of a run is the one the Recursive flag asked
\* for at the Start that launched it: a scan of a run started with Recursive
\* set tracks the file r/b/a.t of the subdirectory when it is there, a scan of
\* a run started without it (also after an earlier recursive run) never
\* does, whatever the flag is changed to while the run lasts.
C14_StrategyLatchedAtStart ==
  [][\A g \in 1..Len(gor) :
       (InitScanStep(g) \/ TickScanStep(g))
         => (PA \in DOMAIN dw'.files <=> PA \in DOMAIN View(fs, gor[g].rec, dw.Pattern))]_vars

\* C15: New(path) returns an error and no watcher when the path cannot be
\* stat'ed or is not a directory; otherwise it returns no error and a watcher
\* that is not running, with an empty Snapshot, no observers, Interval 2000,
\* Recursive false, Pattern "*", Preload false and the shallow strategy.
C15_NewDefaultsAndErrors ==
  [][(ret' # ret /\ ret'.fn = "New") =>
       LET p == ret'.path
           isDirectory == p = Root \/ (p \in DOMAIN fs /\ fs[p].isDir) IN
       IF isDirectory
       THEN /\ ret'.err = "nil"
            /\ Len(ret'.dw) = 1
            /\ LET w == ret'.dw[1] IN
                 /\ w.ticker = Nil
                 /\ w.files = <<>> /\ w.observers = <<>>
                 /\ w.Interval = 2000 /\ ~w.Recursive /\ ~w.Preload
                 /\ w.Pattern = <<"*">>
                 /\ ~Recursing(variant, w)
       ELSE ret'.err # "nil" /\ ret'.dw = <<>>]_vars

\* New has been called on the plain file r/c.t and returned an error and no
\* watcher.
C15_Witness ==
  /\ ret.fn = "New" /\ ret.path = PC
  /\ PC \in DOMAIN fs /\ ~fs[PC].fault
  /\ ret.err = "not a directory" /\ ret.dw = <<>>

\* The value of an entry "NAME=VALUE": everything after the first '='.
EntryValue(e) == SubSeq(e, IndexOf(e, "=") + 1, Len(e))

\* C16: env.Map() never returns nil and returns exactly one entry per
\* environment variable, mapping its name to its full value, also when the
\* value is empty or contains '='; the map is empty when the environment is.
C16_MapHoldsFullValues ==
  /\ crashed # "Map: index out of range"
  /\ [][(ret' # ret /\ ret'.fn = "Map") =>
          /\ ~ret'.nil
          /\ DOMAIN ret'.env = {EntryName(environ[i]) : i \in 1..Len(environ)}
          /\ \A i \in 1..Len(environ) :
                ret'.env[EntryName(environ[i])] = EntryValue(environ[i])]_vars

\* C17: after every scan the Snapshot holds, for every path the traversal
\* yielded in that scan, the record observed in that scan, also when the
\* scan emitted no event for the path.
C17_SnapshotHoldsLastObserved ==
  [][ScanStep =>
       \A p \in DOMAIN dw'.files :
         p \in DOMAIN fs /\ dw'.files[p] = Info(fs, p)]_vars

\* The place of a path in the order of the traversal.
Pos(p) == CHOOSE k \in 1..Len(LexOrder) : LexOrder[k] = p

\* C18: in every batch all Deleted events come after all Added and Changed
\* events, and the Added and Changed events are in the order in which the
\* traversal discovered their paths.
C18_DeletedEventsLast ==
  \A i, j \in 1..Len(hist.events) :
    i < j =>
      /\ hist.events[i].Type = "Deleted" => hist.events[j].Type = "Deleted"
      /\ (hist.events[i].Type # "Deleted" /\ hist.events[j].Type # "Deleted")
           => Pos(hist.events[i].Path) < Pos(hist.events[j].Path)

\* The last scan returned two Added or Changed events followed by a Deleted
\* event.
C18_Witness ==
  /\ Len(hist.events) = 3
  /\ hist.events[1].Type # "Deleted" /\ hist.events[2].Type # "Deleted"
  /\ hist.events[3].Type = "Deleted"

\* C19: for a watcher started once without Preload, replaying the batches
\* received by an observer registered before Start (Added inserts the path,
\* Deleted removes it, Changed keeps it) gives, after each batch, the key set
\* of the Snapshot of the scan that produced the batch.
C19_ReplayGivesSnapshotKeys ==
  [][\A g \in 1..Len(gor) :
       LET ch == gor[g].obs[gor[g].i] IN
       (SendStep(g) /\ Len(gor) = 1 /\ ~dw.Preload /\ ch <= hist.early)
         => hist'.replay[ch] = DOMAIN dw.files]_vars

\* The first observer, registered before the only Start, has received the
\* batch that reports r/c.t deleted, after an earlier batch that added it.
C19_Witness ==
  /\ Len(gor) = 1 /\ ~dw.Preload /\ hist.early >= 1
  /\ rcvd[1] # <<>> /\ Count(rcvd[1][1], "Deleted", PC) = 1
  /\ hist.replay[1] = {} /\ dw.files = <<>>

\* C20: every batch is consistent with the Snapshot before its scan: at most
\* one event per path; Added only for a path the Snapshot did not hold,
\* Changed and Deleted only for a path it held; after the scan an Added or
\* Changed path is in the Snapshot and a Deleted path is not.
C20_BatchConsistentWithSnapshot ==
  [][ScanStep =>
       \A p \in Paths :
         /\ Count(hist'.events, "Added", p) + Count(hist'.events, "Changed", p)
              + Count(hist'.events, "Deleted", p) <= 1
         /\ Count(hist'.events, "Added", p) > 0
              => (p \notin DOMAIN dw.files /\ p \in DOMAIN dw'.files)
         /\ Count(hist'.events, "Changed", p) > 0
              => (p \in DOMAIN dw.files /\ p \in DOMAIN dw'.files)
         /\ Count(hist'.events, "Deleted", p) > 0
              => (p \in DOMAIN dw.files /\ p \notin DOMAIN dw'.files)]_vars

\* The last scan returned one batch with an Added, a Changed and a Deleted
\* event.
C20_Witness ==
  /\ \E p \in Paths : Count(hist.events, "Added", p) = 1
  /\ \E p \in Paths : Count(hist.events, "Changed", p) = 1
  /\ \E p \in Paths : Count(hist.events, "Deleted", p) = 1

====
